---- MODULE Spec2Model ----
(***************************************************************************)
(* Model of the AI video generation app:                                   *)
(*   - the generation lifecycle tracker (hooks/use-video-generation.ts),   *)
(*   - the history store and API client (lib/video-api, kept in TODO.md),  *)
(*   - the proxy endpoint (app/api/generate-video/route.ts),               *)
(*   - the page-level flow (HomePage, VideoGenerator, GenerationQueue).    *)
(* Every event handler runs to completion on the single UI thread, so one  *)
(* action is one handler (or one resumption of an async function after an  *)
(* await), together with the React state updates it queues.                *)
(***************************************************************************)
EXTENDS Integers, Sequences, FiniteSets, TLC

\* ------------------------------------------------------------------ bounds
\* number of generateVideo / handleGenerate calls explored
MaxGenerations == 2
\* number of firings of a progress interval explored
MaxTicks == 1
\* number of mutating History Store calls explored in SpecStore
MaxStoreOps == 2

\* ------------------------------------------------------- program constants
ProgressCap == 90
ProcessingProgress == 5
CompletedProgress == 100
HistoryKeep == 49
MaxPromptLength == 1000

Undefined == "undefined"

Min(a, b) == IF a < b THEN a ELSE b
Max(a, b) == IF a > b THEN a ELSE b

\* ------------------------------------------------------------------ inputs
\* A prompt is modelled by its shape: ws whitespace characters around a core
\* of core non-blank characters.  length = ws + core, trim() drops ws.
Prompts ==
  { [ws |-> 2, core |-> 0],
    [ws |-> 1, core |-> 8],
    [ws |-> 0, core |-> 1001] }

PromptLength(p) == p.ws + p.core

Trim(p) == [ws |-> 0, core |-> p.core]

Configs ==
  { [duration |-> 10, aspectRatio |-> "16:9", style |-> "cinematic", quality |-> "standard"],
    [duration |-> 7,  aspectRatio |-> "16:9", style |-> "cinematic", quality |-> "high"] }

\* Math.random() * 8 + 2 lies in [2, 10): the smallest and the largest
\* whole increments stand for the range.
Increments == {2, 9}

\* ------------------------------------------------------- JSON and storage
\* A JSON value is an array of records or some value that is not an array.
JArray(s) == [type |-> "array", items |-> s]
JObject == [type |-> "object", items |-> <<>>]

IsArray(v) == v.type = "array"

\* A text is valid JSON (the value it encodes and its indentation) or not.
JSONstringify(v, indent) == [kind |-> "json", value |-> v, indent |-> indent]
Garbage == [kind |-> "garbage", value |-> JObject, indent |-> 0]
Absent == [kind |-> "absent", value |-> JObject, indent |-> 0]

ParseThrows(text) == text.kind # "json"
JSONparse(text) == text.value

\* getGenerationHistory: the parsed key, [] when the key is absent, when
\* getItem throws (readFails) or when JSON.parse throws.
getGenerationHistory(st, readFails) ==
  IF readFails THEN JArray(<<>>)
  ELSE IF st = Absent THEN JArray(<<>>)
  ELSE IF ParseThrows(st) THEN JArray(<<>>)
  ELSE JSONparse(st)

Slice(s, n) == SubSeq(s, 1, Min(n, Len(s)))

saveGenerationToHistoryKeepAll(st, g, readFails, writeFails) ==
  LET history == getGenerationHistory(st, readFails)
  IN IF ~IsArray(history) THEN st
     ELSE IF writeFails THEN st
     ELSE JSONstringify(JArray(<<g>> \o history.items), 0)

\* saveGenerationToHistory: [generation, ...history.slice(0, 49)]; a value
\* that is not an array has no slice, and a throwing setItem writes nothing.
saveGenerationToHistory(st, g, readFails, writeFails) ==
  LET history == getGenerationHistory(st, readFails)
  IN IF ~IsArray(history) THEN st
     ELSE IF writeFails THEN st
     ELSE JSONstringify(JArray(<<g>> \o Slice(history.items, HistoryKeep)), 0)

clearGenerationHistory(st, writeFails) == IF writeFails THEN st ELSE Absent

exportGenerationHistoryRaw(st, readFails) == st

exportGenerationHistory(st, readFails) ==
  JSONstringify(getGenerationHistory(st, readFails), 2)

importAcceptsAnyJson(data) == ~ParseThrows(data)

importAccepts(data) == ~ParseThrows(data) /\ IsArray(JSONparse(data))

importGenerationHistory(st, data, writeFails) ==
  IF importAccepts(data) /\ ~writeFails THEN data ELSE st

importResult(data, writeFails) == importAccepts(data) /\ ~writeFails

\* the list a reader of the persisted key sees
PersistedList(st) ==
  LET v == getGenerationHistory(st, FALSE)
  IN IF IsArray(v) THEN v.items ELSE <<>>

\* ------------------------------------------------- proxy POST and API client
\* what the external provider does with the proxy's call
ProviderOutcomes ==
  {"fetch_throws", "not_ok", "no_choices", "mp4", "processing", "text", "blank"}

\* what the transport does with the client's call to the proxy
NetOutcomes == {"ok", "network_error", "bad_body"}

ValidDurations == {5, 10, 15, 30}
ValidAspectRatios == {"16:9", "9:16", "1:1"}

Response(success, status, videoUrl, error, taskId, estimatedTime) ==
  [success |-> success, status |-> status, videoUrl |-> videoUrl,
   error |-> error, taskId |-> taskId, estimatedTime |-> estimatedTime]

FailureResponse(error, status) == Response(FALSE, status, Undefined, error, Undefined, 0)

estimateProcessingTime(duration, quality) ==
  Max(IF quality = "high" THEN (duration * 10 * 3) \div 2 ELSE duration * 10, 30)

validationErrorDurationFirst(body) ==
  IF PromptLength(body.prompt) = 0 \/ body.prompt.core = 0 THEN "Prompt is required"
  ELSE IF body.duration \notin ValidDurations
       THEN "Duration must be 5, 10, 15, or 30 seconds"
  ELSE IF PromptLength(body.prompt) > MaxPromptLength
       THEN "Prompt must be less than 1000 characters"
  ELSE IF body.aspectRatio \notin ValidAspectRatios THEN "Invalid aspect ratio"
  ELSE Undefined

\* the first violated rule of the proxy's validation, or Undefined
validationError(body) ==
  IF PromptLength(body.prompt) = 0 \/ body.prompt.core = 0 THEN "Prompt is required"
  ELSE IF PromptLength(body.prompt) > MaxPromptLength
       THEN "Prompt must be less than 1000 characters"
  ELSE IF body.duration \notin ValidDurations
       THEN "Duration must be 5, 10, 15, or 30 seconds"
  ELSE IF body.aspectRatio \notin ValidAspectRatios THEN "Invalid aspect ratio"
  ELSE Undefined

\* POST handler of the proxy: the HTTP status and the JSON body it answers
POST(body, prov) ==
  IF validationError(body) # Undefined
  THEN [http |-> 400, calledProvider |-> FALSE,
        body |-> FailureResponse(validationError(body), Undefined)]
  ELSE IF prov = "fetch_throws"
  THEN [http |-> 500, calledProvider |-> TRUE,
        body |-> FailureResponse("fetch failed", "failed")]
  ELSE IF prov = "not_ok"
  THEN [http |-> 500, calledProvider |-> TRUE,
        body |-> FailureResponse("Failed to generate video", "failed")]
  ELSE IF prov = "mp4"
  THEN [http |-> 200, calledProvider |-> TRUE,
        body |-> Response(TRUE, "completed", "https://video.mp4", Undefined, Undefined, 0)]
  ELSE IF prov = "processing"
  THEN [http |-> 200, calledProvider |-> TRUE,
        body |-> Response(TRUE, "processing", Undefined, Undefined, "task_id",
                          estimateProcessingTime(body.duration, body.quality))]
  ELSE IF prov = "text"
  THEN [http |-> 200, calledProvider |-> TRUE,
        body |-> Response(TRUE, "completed", "content", Undefined, Undefined, 0)]
  ELSE IF prov = "blank"
  THEN [http |-> 200, calledProvider |-> TRUE,
        body |-> Response(TRUE, "completed", "", Undefined, Undefined, 0)]
  ELSE [http |-> 500, calledProvider |-> TRUE,
        body |-> FailureResponse("Invalid response from video generation service", "failed")]

\* response.ok
Ok(http) == http >= 200 /\ http <= 299

HttpErrorMessage(http) ==
  IF http = 400 THEN "HTTP error! status: 400"
  ELSE IF http = 404 THEN "HTTP error! status: 404"
  ELSE "HTTP error! status: 500"

VideoGenerationAPI_generateVideoUnchecked(request, net, prov) ==
  IF net = "network_error" THEN FailureResponse("Failed to fetch", "failed")
  ELSE IF net = "bad_body" THEN FailureResponse("Unexpected token", "failed")
  ELSE POST(request, prov).body

\* VideoGenerationAPI.generateVideo: every throw becomes a failure result
VideoGenerationAPI_generateVideo(request, net, prov) ==
  IF net = "network_error" THEN FailureResponse("Failed to fetch", "failed")
  ELSE IF ~Ok(POST(request, prov).http)
       THEN FailureResponse(HttpErrorMessage(POST(request, prov).http), "failed")
  ELSE IF net = "bad_body" THEN FailureResponse("Unexpected token", "failed")
  ELSE POST(request, prov).body

\* validateVideoRequest of the client library: the same four rules
validateVideoRequest(request) ==
  IF PromptLength(request.prompt) = 0 \/ request.prompt.core = 0 THEN "Prompt is required"
  ELSE IF PromptLength(request.prompt) > MaxPromptLength
       THEN "Prompt must be less than 1000 characters"
  ELSE IF request.duration \notin ValidDurations
       THEN "Duration must be 5, 10, 15, or 30 seconds"
  ELSE IF request.aspectRatio \notin ValidAspectRatios THEN "Invalid aspect ratio"
  ELSE Undefined

\* the request generateVideo sends for a prompt and a config
SubmitRequest(prompt, config) ==
  [prompt |-> Trim(prompt), duration |-> config.duration,
   aspectRatio |-> config.aspectRatio, style |-> config.style,
   quality |-> config.quality]

\* ------------------------------------------------------------------- state
VARIABLES
  activeGenerations,   \* hook state: in-flight generations, in submission order
  generationHistory,   \* hook state: terminal records, newest first
  isGenerating,        \* hook state
  storage,             \* localStorage key 'video-generation-history'
  pending,             \* generateVideo calls suspended at await videoAPI.generateVideo
  timers,              \* identifiers with a pending pollForCompletion timeout
  nCalls,              \* generateVideo calls made so far
  ticks,               \* firings of the progress interval so far
  lastResult,          \* what the last settled generateVideo call resolved to
  \* page-level flow
  pageActiveGenerations,  \* HomePage.activeGenerations
  pageGenerationHistory,  \* HomePage.generationHistory
  localGenerations,       \* GenerationQueue.localGenerations
  pageIsGenerating,       \* VideoGenerator.isGenerating
  pagePending,            \* handleGenerate calls suspended at await fetch
  pageTimers,             \* pending timeouts of VideoGenerator.pollForCompletion
  pageCalls,              \* handleGenerate calls that passed validation so far
  pageTicks,              \* firings of the queue's progress interval so far
  \* callers of the History Store
  storeOps,               \* mutating store calls made so far
  loaded,                 \* what the last getGenerationHistory() returned
  exported,               \* what the last exportGenerationHistory() returned
  imported,               \* what the last importGenerationHistory() returned
  \* callers of the API client and of the proxy
  lastCall                \* the last call of generateVideo or checkStatus and its result

hookVars == <<activeGenerations, generationHistory, isGenerating, pending,
              timers, nCalls, ticks, lastResult>>

pageVars == <<pageActiveGenerations, pageGenerationHistory, localGenerations,
              pageIsGenerating, pagePending, pageTimers, pageCalls, pageTicks>>

storeVars == <<storeOps, loaded, exported, imported>>

clientVars == <<lastCall>>

vars == <<hookVars, storage, pageVars, storeVars, clientVars>>

\* ------------------------------------------------------ generation records
Ids(list) == {list[i].id : i \in DOMAIN list}

Find(list, id) == list[CHOOSE i \in DOMAIN list :
                         list[i].id = id /\ \A j \in DOMAIN list : list[j].id = id => i <= j]

RECURSIVE FilterOut(_, _)
FilterOut(list, id) ==
  IF list = <<>> THEN <<>>
  ELSE IF Head(list).id = id THEN FilterOut(Tail(list), id)
  ELSE <<Head(list)>> \o FilterOut(Tail(list), id)

generateUniqueIdStale(n) == 1

\* gen_${Date.now()}_${random}: the n-th call of a session gets the n-th
\* identifier of a collision-free, time-ordered sequence.
generateUniqueId(n) == n

NewGeneration(id, prompt, config) ==
  [id |-> id, prompt |-> Trim(prompt), config |-> config, status |-> "processing",
   progress |-> 0, videoUrl |-> Undefined, error |-> Undefined,
   taskId |-> Undefined, completedAt |-> Undefined]

\* a record an earlier session left in the store
OldGeneration ==
  [NewGeneration(0, [ws |-> 0, core |-> 8], CHOOSE c \in Configs : c.duration = 10)
     EXCEPT !.status = "completed", !.progress = CompletedProgress,
            !.videoUrl = "https://video.mp4", !.completedAt = "set"]

InitialStores == {Absent, JSONstringify(JArray(<<OldGeneration>>), 0)}

Truthy(str) == str # Undefined /\ str # ""

CompletedGenerationNoUrl(generation, videoUrl) ==
  [generation EXCEPT !.status = "completed", !.completedAt = "set",
                     !.progress = CompletedProgress]

CancelledGenerationNoError(generation) ==
  [generation EXCEPT !.status = "failed", !.completedAt = "set"]

\* the three terminal records the hook builds
CompletedGeneration(generation, videoUrl) ==
  [generation EXCEPT !.status = "completed", !.videoUrl = videoUrl,
                     !.completedAt = "set", !.progress = CompletedProgress]

FailedGenerationNoMessage(generation, message) ==
  [generation EXCEPT !.status = "failed", !.error = "",
                     !.completedAt = "set", !.progress = 0]

FailedGeneration(generation, message) ==
  [generation EXCEPT !.status = "failed", !.error = message,
                     !.completedAt = "set", !.progress = 0]

CancelledGeneration(generation) ==
  [generation EXCEPT !.status = "failed", !.error = "Cancelled by user",
                     !.completedAt = "set"]

PlaceholderVideoUrl == "https://storage.googleapis.com/placeholder.png"

\* ------------------------------------------------------------ hook actions
\* the page and the store callers before anything happened
PageIdle ==
  /\ pageActiveGenerations = <<>>
  /\ pageGenerationHistory = <<>>
  /\ localGenerations = <<>>
  /\ pageIsGenerating = FALSE
  /\ pagePending = {}
  /\ pageTimers = {}
  /\ pageCalls = 0
  /\ pageTicks = 0

StoreIdle ==
  /\ storeOps = 0
  /\ loaded = JArray(<<>>)
  /\ exported = Absent
  /\ imported = FALSE

\* a call that was not made yet
NoCall == [kind |-> "none"]

ClientIdle == lastCall = NoCall

\* the hook after its mount effect loaded the history
HookMounted ==
  /\ activeGenerations = <<>>
  /\ generationHistory = getGenerationHistory(storage, FALSE).items
  /\ isGenerating = FALSE
  /\ pending = {}
  /\ timers = {}
  /\ nCalls = 0
  /\ ticks = 0
  /\ lastResult = "none"

Init ==
  /\ storage = Absent
  /\ HookMounted
  /\ PageIdle
  /\ StoreIdle
  /\ ClientIdle

\* generateVideo up to its await: build the record, add it to the active
\* set, send the request.
StartGeneration(prompt, config) ==
  /\ nCalls < MaxGenerations
  /\ LET generation == NewGeneration(generateUniqueId(nCalls + 1), prompt, config)
     IN /\ activeGenerations' = Append(activeGenerations, generation)
        /\ pending' = pending \cup {[gen |-> generation, prompt |-> prompt]}
  /\ isGenerating' = TRUE
  /\ nCalls' = nCalls + 1
  /\ UNCHANGED <<generationHistory, storage, timers, ticks, lastResult>>
  /\ UNCHANGED <<pageVars, storeVars, clientVars>>

GenerateVideo(prompt, config) == StartGeneration(prompt, config)

RetryGenerationOtherConfig(generation) ==
  StartGeneration(generation.prompt, CHOOSE c \in Configs : c # generation.config)

RetryGeneration(generation) ==
  StartGeneration(generation.prompt, generation.config)

\* generateVideo from the await on: the three branches on the response
SubmitResponse(call, net, prov, readFails, writeFails) ==
  LET generation == call.gen
      response == VideoGenerationAPI_generateVideo(
                    SubmitRequest(call.prompt, generation.config), net, prov)
  IN /\ call \in pending
     /\ pending' = pending \ {call}
     /\ isGenerating' = FALSE
     /\ IF response.success /\ response.status = "completed" /\ Truthy(response.videoUrl)
        THEN LET completedGeneration == CompletedGeneration(generation, response.videoUrl)
             IN /\ activeGenerations' = FilterOut(activeGenerations, generation.id)
                /\ generationHistory' = <<completedGeneration>> \o generationHistory
                /\ storage' = saveGenerationToHistory(storage, completedGeneration,
                                                      readFails, writeFails)
                /\ timers' = timers
                /\ lastResult' = "true"
        ELSE IF response.success /\ response.status = "processing"
        THEN /\ activeGenerations' =
                  [i \in DOMAIN activeGenerations |->
                     IF activeGenerations[i].id = generation.id
                     THEN [activeGenerations[i] EXCEPT !.taskId = response.taskId,
                                                       !.progress = ProcessingProgress]
                     ELSE activeGenerations[i]]
             /\ timers' = timers \cup {generation.id}
             /\ lastResult' = "true"
             /\ UNCHANGED <<generationHistory, storage>>
        ELSE LET failedGeneration ==
                   FailedGeneration(generation,
                     IF Truthy(response.error) THEN response.error ELSE "Generation failed")
             IN /\ activeGenerations' = FilterOut(activeGenerations, generation.id)
                /\ generationHistory' = <<failedGeneration>> \o generationHistory
                /\ storage' = saveGenerationToHistory(storage, failedGeneration,
                                                      readFails, writeFails)
                /\ timers' = timers
                /\ lastResult' = "false"
     /\ UNCHANGED <<nCalls, ticks>>
     /\ UNCHANGED <<pageVars, storeVars, clientVars>>

TimerFiresUnchecked(generationId, readFails, writeFails) ==
  /\ generationId \in timers
  /\ timers' = timers \ {generationId}
  /\ LET completedGeneration ==
           CompletedGeneration(NewGeneration(generationId, [ws |-> 0, core |-> 8],
                                             CHOOSE c \in Configs : TRUE),
                               PlaceholderVideoUrl)
     IN /\ generationHistory' = <<completedGeneration>> \o generationHistory
        /\ storage' = saveGenerationToHistory(storage, completedGeneration,
                                              readFails, writeFails)
        /\ activeGenerations' = FilterOut(activeGenerations, generationId)
  /\ UNCHANGED <<isGenerating, pending, nCalls, ticks, lastResult>>
  /\ UNCHANGED <<pageVars, storeVars, clientVars>>

TimerFiresIdle(generationId, readFails, writeFails) ==
  /\ generationId \in timers
  /\ timers' = timers \ {generationId}
  /\ UNCHANGED <<activeGenerations, generationHistory, storage>>
  /\ UNCHANGED <<isGenerating, pending, nCalls, ticks, lastResult>>
  /\ UNCHANGED <<pageVars, storeVars, clientVars>>

\* the timeout pollForCompletion sets
TimerFires(generationId, readFails, writeFails) ==
  /\ generationId \in timers
  /\ timers' = timers \ {generationId}
  /\ IF generationId \notin Ids(activeGenerations)
     THEN UNCHANGED <<activeGenerations, generationHistory, storage>>
     ELSE LET completedGeneration ==
                CompletedGeneration(Find(activeGenerations, generationId),
                                    PlaceholderVideoUrl)
          IN /\ generationHistory' = <<completedGeneration>> \o generationHistory
             /\ storage' = saveGenerationToHistory(storage, completedGeneration,
                                                   readFails, writeFails)
             /\ activeGenerations' = FilterOut(activeGenerations, generationId)
  /\ UNCHANGED <<isGenerating, pending, nCalls, ticks, lastResult>>
  /\ UNCHANGED <<pageVars, storeVars, clientVars>>

CancelGenerationAppends(id, readFails, writeFails) ==
  /\ IF id \notin Ids(activeGenerations)
     THEN UNCHANGED <<activeGenerations, generationHistory, storage>>
     ELSE LET cancelledGeneration ==
                CancelledGeneration(Find(activeGenerations, id))
          IN /\ generationHistory' = generationHistory \o <<cancelledGeneration>>
             /\ storage' = saveGenerationToHistory(storage, cancelledGeneration,
                                                   readFails, writeFails)
             /\ activeGenerations' = FilterOut(activeGenerations, id)
  /\ UNCHANGED <<isGenerating, pending, timers, nCalls, ticks, lastResult>>
  /\ UNCHANGED <<pageVars, storeVars, clientVars>>

CancelGeneration(id, readFails, writeFails) ==
  /\ IF id \notin Ids(activeGenerations)
     THEN UNCHANGED <<activeGenerations, generationHistory, storage>>
     ELSE LET cancelledGeneration ==
                CancelledGeneration(Find(activeGenerations, id))
          IN /\ generationHistory' = <<cancelledGeneration>> \o generationHistory
             /\ storage' = saveGenerationToHistory(storage, cancelledGeneration,
                                                   readFails, writeFails)
             /\ activeGenerations' = FilterOut(activeGenerations, id)
  /\ UNCHANGED <<isGenerating, pending, timers, nCalls, ticks, lastResult>>
  /\ UNCHANGED <<pageVars, storeVars, clientVars>>

ProgressTickUncapped(increment) ==
  /\ ticks < MaxTicks
  /\ ticks' = ticks + 1
  /\ activeGenerations' =
       [i \in DOMAIN activeGenerations |->
          IF activeGenerations[i].status = "processing"
             /\ activeGenerations[i].progress < ProgressCap
          THEN [activeGenerations[i] EXCEPT !.progress = @ + increment[i]]
          ELSE activeGenerations[i]]
  /\ UNCHANGED <<generationHistory, isGenerating, storage, pending, timers, nCalls,
                 lastResult>>
  /\ UNCHANGED <<pageVars, storeVars, clientVars>>

ProgressTickMarksDone(increment) ==
  /\ ticks < MaxTicks
  /\ ticks' = ticks + 1
  /\ activeGenerations' =
       [i \in DOMAIN activeGenerations |->
          IF activeGenerations[i].status = "processing"
             /\ activeGenerations[i].progress < ProgressCap
          THEN IF activeGenerations[i].progress + increment[i] >= ProgressCap
               THEN [activeGenerations[i] EXCEPT !.progress = ProgressCap,
                                                 !.status = "completed"]
               ELSE [activeGenerations[i] EXCEPT !.progress = @ + increment[i]]
          ELSE activeGenerations[i]]
  /\ UNCHANGED <<generationHistory, isGenerating, storage, pending, timers, nCalls,
                 lastResult>>
  /\ UNCHANGED <<pageVars, storeVars, clientVars>>

\* one firing of the 3000 ms progress interval
ProgressTick(increment) ==
  /\ ticks < MaxTicks
  /\ ticks' = ticks + 1
  /\ activeGenerations' =
       [i \in DOMAIN activeGenerations |->
          IF activeGenerations[i].status = "processing"
             /\ activeGenerations[i].progress < ProgressCap
          THEN [activeGenerations[i] EXCEPT
                  !.progress = Min(@ + increment[i], ProgressCap)]
          ELSE activeGenerations[i]]
  /\ UNCHANGED <<generationHistory, isGenerating, storage, pending, timers, nCalls,
                 lastResult>>
  /\ UNCHANGED <<pageVars, storeVars, clientVars>>

ClearHistory(writeFails) ==
  /\ generationHistory' = <<>>
  /\ storage' = clearGenerationHistory(storage, writeFails)
  /\ UNCHANGED <<activeGenerations, isGenerating, pending, timers, nCalls, ticks,
                 lastResult>>
  /\ UNCHANGED <<pageVars, storeVars, clientVars>>

CancelIds == 0 .. MaxGenerations

\* the requests that pass validateVideoRequest
ValidPrompts == {p \in Prompts : p.core # 0 /\ PromptLength(p) <= MaxPromptLength}
ValidConfigs == {c \in Configs : c.duration \in ValidDurations
                                  /\ c.aspectRatio \in ValidAspectRatios}

\* one outcome of the submit per branch of generateVideo: completed with a
\* URL, processing, completed without a URL, and a failure result
SubmitOutcomes ==
  {<<"ok", "mp4">>, <<"ok", "processing">>, <<"ok", "blank">>, <<"network_error", "mp4">>}

\* the largest whole increment alone
CoarseIncrements == {9}

\* Spec: a first session (no stored history) of valid requests, with a
\* storage that does not throw.
Next ==
  \/ \E prompt \in ValidPrompts, config \in ValidConfigs : GenerateVideo(prompt, config)
  \/ \E i \in DOMAIN generationHistory : RetryGeneration(generationHistory[i])
  \/ \E call \in pending, o \in SubmitOutcomes :
       SubmitResponse(call, o[1], o[2], FALSE, FALSE)
  \/ \E id \in timers : TimerFires(id, FALSE, FALSE)
  \/ \E id \in CancelIds : CancelGeneration(id, FALSE, FALSE)
  \/ \E increment \in [DOMAIN activeGenerations -> CoarseIncrements] :
       ProgressTick(increment)
  \/ ClearHistory(FALSE)

Spec == Init /\ [][Next]_vars

\* SpecFair: the lifecycle of Spec with every awaited submit settling and
\* every timeout firing: fetch settles each call, and the browser runs each
\* setTimeout callback once its delay elapsed.  The progress interval is left
\* out: it writes progress only, which no handler reads.
SubmitSettles ==
  \E call \in pending, o \in SubmitOutcomes : SubmitResponse(call, o[1], o[2], FALSE, FALSE)

TimeoutElapses == \E id \in timers : TimerFires(id, FALSE, FALSE)

NextFair ==
  \/ \E prompt \in ValidPrompts, config \in ValidConfigs : GenerateVideo(prompt, config)
  \/ \E i \in DOMAIN generationHistory : RetryGeneration(generationHistory[i])
  \/ SubmitSettles
  \/ TimeoutElapses
  \/ \E id \in CancelIds : CancelGeneration(id, FALSE, FALSE)
  \/ ClearHistory(FALSE)

SpecFair ==
  Init /\ [][NextFair]_vars /\ WF_vars(SubmitSettles) /\ WF_vars(TimeoutElapses)

\* SpecAnyRequest: any session (with or without stored history), any prompt
\* and config, every outcome of the transport and of the provider, both
\* increments.
InitAnyRequest ==
  /\ storage \in InitialStores
  /\ HookMounted
  /\ PageIdle
  /\ StoreIdle
  /\ ClientIdle

NextAnyRequest ==
  \/ \E prompt \in Prompts, config \in Configs : GenerateVideo(prompt, config)
  \/ \E i \in DOMAIN generationHistory : RetryGeneration(generationHistory[i])
  \/ \E call \in pending, net \in NetOutcomes, prov \in ProviderOutcomes :
       SubmitResponse(call, net, prov, FALSE, FALSE)
  \/ \E id \in timers : TimerFires(id, FALSE, FALSE)
  \/ \E id \in CancelIds : CancelGeneration(id, FALSE, FALSE)
  \/ \E increment \in [DOMAIN activeGenerations -> Increments] : ProgressTick(increment)
  \/ ClearHistory(FALSE)

SpecAnyRequest == InitAnyRequest /\ [][NextAnyRequest]_vars

\* SpecLongRunning: the sessions of Spec, and the same sessions taken up
\* after the progress interval has already brought a first generation, still
\* processing on the provider's side, close to the cap or onto it.
NearCapProgress == {88, 90}

InitLongRunning ==
  \/ Init
  \/ \E progress \in NearCapProgress :
       LET prompt == CHOOSE p \in ValidPrompts : TRUE
           config == CHOOSE c \in ValidConfigs : TRUE
           generation == NewGeneration(generateUniqueId(1), prompt, config)
           response == VideoGenerationAPI_generateVideo(
                         SubmitRequest(prompt, config), "ok", "processing")
       IN /\ storage = Absent
          /\ activeGenerations = <<[generation EXCEPT !.taskId = response.taskId,
                                                       !.progress = progress]>>
          /\ generationHistory = <<>>
          /\ isGenerating = FALSE
          /\ pending = {}
          /\ timers = {generation.id}
          /\ nCalls = 1
          /\ ticks = 0
          /\ lastResult = "true"
          /\ PageIdle
          /\ StoreIdle
          /\ ClientIdle

SpecLongRunning == InitLongRunning /\ [][Next]_vars

\* --------------------------------------------------------- page-level flow
\* HomePage keeps the two lists, VideoGenerator submits to the proxy with
\* fetch, GenerationQueue shows a local copy of the active list.

\* the config VideoGenerator starts with
PageConfig ==
  [duration |-> 10, aspectRatio |-> "16:9", style |-> "cinematic", quality |-> "standard"]

\* Math.random() * 10 + 5 lies in [5, 15)
QueueIncrements == {5, 14}

PagePlaceholderVideoUrl == "https://storage.googleapis.com/page-placeholder.png"

InitPage ==
  /\ storage = Absent
  /\ HookMounted
  /\ PageIdle
  /\ StoreIdle
  /\ ClientIdle

\* HomePage.handleNewGeneration, then the queue's effect copies the new list
handleNewGeneration(generation) ==
  /\ pageActiveGenerations' = Append(pageActiveGenerations, generation)
  /\ localGenerations' = Append(pageActiveGenerations, generation)
  /\ UNCHANGED pageGenerationHistory

\* HomePage.handleGenerationComplete: filter, then prepend to the history
handleGenerationComplete(completedGeneration) ==
  /\ pageActiveGenerations' = FilterOut(pageActiveGenerations, completedGeneration.id)
  /\ localGenerations' = FilterOut(pageActiveGenerations, completedGeneration.id)
  /\ pageGenerationHistory' = <<completedGeneration>> \o pageGenerationHistory

\* HomePage.handleGenerationError: filter only
handleGenerationError(failedGeneration) ==
  /\ pageActiveGenerations' = FilterOut(pageActiveGenerations, failedGeneration.id)
  /\ localGenerations' = FilterOut(pageActiveGenerations, failedGeneration.id)
  /\ UNCHANGED pageGenerationHistory

\* VideoGenerator.handleGenerate up to await fetch
HandleGenerate(prompt) ==
  /\ pageCalls < MaxGenerations
  /\ IF Trim(prompt).core = 0 \/ PromptLength(prompt) > MaxPromptLength
     THEN UNCHANGED pageVars
     ELSE LET generation == NewGeneration(generateUniqueId(pageCalls + 1), prompt, PageConfig)
          IN /\ handleNewGeneration(generation)
             /\ pageIsGenerating' = TRUE
             /\ pagePending' = pagePending \cup {[gen |-> generation, prompt |-> prompt]}
             /\ pageCalls' = pageCalls + 1
             /\ UNCHANGED <<pageTimers, pageTicks>>
  /\ UNCHANGED <<hookVars, storage, storeVars, clientVars>>

\* VideoGenerator.handleGenerate from the await on; the body is parsed
\* whatever the HTTP status is
PageResponse(call, net, prov) ==
  LET generation == call.gen
      result == POST(SubmitRequest(call.prompt, generation.config), prov).body
  IN /\ call \in pagePending
     /\ pagePending' = pagePending \ {call}
     /\ pageIsGenerating' = FALSE
     /\ IF net # "ok" \/ ~result.success
        THEN /\ handleGenerationError(
                  [generation EXCEPT !.status = "failed", !.completedAt = "set",
                     !.error = IF net = "network_error" THEN "Failed to fetch"
                               ELSE IF net = "bad_body" THEN "Unexpected token"
                               ELSE IF Truthy(result.error) THEN result.error
                               ELSE "Failed to generate video"])
             /\ pageTimers' = pageTimers
        ELSE IF result.status = "completed" /\ Truthy(result.videoUrl)
        THEN /\ handleGenerationComplete(CompletedGeneration(generation, result.videoUrl))
             /\ pageTimers' = pageTimers
        ELSE IF result.status = "processing"
        THEN /\ pageTimers' = pageTimers \cup {call}
             /\ UNCHANGED <<pageActiveGenerations, pageGenerationHistory, localGenerations>>
        ELSE UNCHANGED <<pageActiveGenerations, pageGenerationHistory,
                         localGenerations, pageTimers>>
     /\ UNCHANGED <<pageCalls, pageTicks, hookVars, storage, storeVars, clientVars>>

\* the 5000 ms timeout of VideoGenerator.pollForCompletion
PageTimerFires(call) ==
  /\ call \in pageTimers
  /\ pageTimers' = pageTimers \ {call}
  /\ handleGenerationComplete(
       CompletedGeneration(NewGeneration(call.gen.id, call.prompt, call.gen.config),
                           PagePlaceholderVideoUrl))
  /\ UNCHANGED <<pageIsGenerating, pagePending, pageCalls, pageTicks>>
  /\ UNCHANGED <<hookVars, storage, storeVars, clientVars>>

\* GenerationQueue.handleCancelGeneration
HandleCancelGeneration(generationId) ==
  /\ IF generationId \in Ids(localGenerations)
     THEN handleGenerationError(
            [Find(localGenerations, generationId) EXCEPT
               !.status = "failed", !.error = "Cancelled by user", !.completedAt = "set"])
     ELSE UNCHANGED <<pageActiveGenerations, pageGenerationHistory, localGenerations>>
  /\ UNCHANGED <<pageIsGenerating, pagePending, pageTimers, pageCalls, pageTicks>>
  /\ UNCHANGED <<hookVars, storage, storeVars, clientVars>>

\* one firing of GenerationQueue's 2000 ms interval
QueueTick(increment) ==
  /\ pageTicks < MaxTicks
  /\ pageTicks' = pageTicks + 1
  /\ localGenerations' =
       [i \in DOMAIN localGenerations |->
          IF localGenerations[i].status = "processing"
             /\ localGenerations[i].progress < ProgressCap
          THEN [localGenerations[i] EXCEPT
                  !.progress = Min(@ + increment[i], ProgressCap)]
          ELSE localGenerations[i]]
  /\ UNCHANGED <<pageActiveGenerations, pageGenerationHistory, pageIsGenerating,
                 pagePending, pageTimers, pageCalls>>
  /\ UNCHANGED <<hookVars, storage, storeVars, clientVars>>

\* GenerationHistory's onClearHistory
PageClearHistory ==
  /\ pageGenerationHistory' = <<>>
  /\ UNCHANGED <<pageActiveGenerations, localGenerations, pageIsGenerating,
                 pagePending, pageTimers, pageCalls, pageTicks>>
  /\ UNCHANGED <<hookVars, storage, storeVars, clientVars>>

NextPage ==
  \/ \E prompt \in Prompts : HandleGenerate(prompt)
  \/ \E call \in pagePending, net \in NetOutcomes, prov \in ProviderOutcomes :
       PageResponse(call, net, prov)
  \/ \E call \in pageTimers : PageTimerFires(call)
  \/ \E id \in CancelIds : HandleCancelGeneration(id)
  \/ \E increment \in [DOMAIN localGenerations -> QueueIncrements] : QueueTick(increment)
  \/ PageClearHistory

SpecPage == InitPage /\ [][NextPage]_vars

\* SpecPageFair: the page-level flow with every awaited fetch settling and
\* every 5000 ms timeout firing
PageSubmitSettles ==
  \E call \in pagePending, net \in NetOutcomes, prov \in ProviderOutcomes :
    PageResponse(call, net, prov)

PageTimeoutElapses == \E call \in pageTimers : PageTimerFires(call)

SpecPageFair ==
  InitPage /\ [][NextPage]_vars /\ WF_vars(PageSubmitSettles) /\ WF_vars(PageTimeoutElapses)

\* ----------------------------------------------------------- History Store
\* the store's functions called directly, with a storage that may throw
OldList(n) == [i \in 1 .. n |-> [OldGeneration EXCEPT !.id = 0 - i]]

\* SpecFullStore: Spec for a session that starts with a full persisted list
\* (50 records of earlier sessions), which the mount effect loads
InitFullStore ==
  /\ storage = JSONstringify(JArray(OldList(HistoryKeep + 1)), 0)
  /\ HookMounted
  /\ PageIdle
  /\ StoreIdle
  /\ ClientIdle

SpecFullStore == InitFullStore /\ [][Next]_vars

\* SpecImportedStore: Spec for a session that starts after an earlier one
\* called importGenerationHistory on a text holding a list: a list of
\* finished records, or one that also holds a record still processing
UnfinishedGeneration ==
  [NewGeneration(0 - 1, [ws |-> 0, core |-> 8], CHOOSE c \in Configs : c.duration = 10)
     EXCEPT !.progress = 40]

ImportedTexts ==
  {JSONstringify(JArray(<<OldGeneration>>), 2),
   JSONstringify(JArray(<<OldGeneration, UnfinishedGeneration>>), 2)}

InitImportedStore ==
  /\ \E data \in ImportedTexts : storage = importGenerationHistory(Absent, data, FALSE)
  /\ HookMounted
  /\ PageIdle
  /\ StoreIdle
  /\ ClientIdle

SpecImportedStore == InitImportedStore /\ [][Next]_vars

\* the derived counts the hook returns
getActiveCount == Len(activeGenerations)

getCompletedCount ==
  Len(SelectSeq(generationHistory, LAMBDA g : g.status = "completed"))

getFailedCount ==
  Len(SelectSeq(generationHistory, LAMBDA g : g.status = "failed"))

StoreGenerations ==
  { CompletedGeneration(NewGeneration(1, [ws |-> 0, core |-> 8], PageConfig),
                        PlaceholderVideoUrl),
    FailedGeneration(NewGeneration(2, [ws |-> 0, core |-> 8], PageConfig),
                     "Generation failed") }

\* texts offered to importGenerationHistory: lists around the cap, a value
\* that is not a list, text that is not JSON, and the last export
ImportTexts ==
  {JSONstringify(JArray(OldList(n)), 2) :
     n \in {0, HistoryKeep, HistoryKeep + 1, HistoryKeep + 2}}
  \cup {JSONstringify(JObject, 0), Garbage}
  \cup (IF exported = Absent THEN {} ELSE {exported})

InitStore ==
  /\ storage = Absent
  /\ HookMounted
  /\ PageIdle
  /\ StoreIdle
  /\ ClientIdle

StoreSave(generation, readFails, writeFails) ==
  /\ storeOps < MaxStoreOps
  /\ storeOps' = storeOps + 1
  /\ storage' = saveGenerationToHistory(storage, generation, readFails, writeFails)
  /\ UNCHANGED <<loaded, exported, imported, hookVars, pageVars, clientVars>>

StoreClear(writeFails) ==
  /\ storeOps < MaxStoreOps
  /\ storeOps' = storeOps + 1
  /\ storage' = clearGenerationHistory(storage, writeFails)
  /\ UNCHANGED <<loaded, exported, imported, hookVars, pageVars, clientVars>>

StoreImport(data, writeFails) ==
  /\ storeOps < MaxStoreOps
  /\ storeOps' = storeOps + 1
  /\ storage' = importGenerationHistory(storage, data, writeFails)
  /\ imported' = importResult(data, writeFails)
  /\ UNCHANGED <<loaded, exported, hookVars, pageVars, clientVars>>

StoreLoad(readFails) ==
  /\ loaded' = getGenerationHistory(storage, readFails)
  /\ UNCHANGED <<storage, storeOps, exported, imported, hookVars, pageVars, clientVars>>

StoreExport(readFails) ==
  /\ exported' = exportGenerationHistory(storage, readFails)
  /\ UNCHANGED <<storage, storeOps, loaded, imported, hookVars, pageVars, clientVars>>

NextStore ==
  \/ \E generation \in StoreGenerations, readFails \in BOOLEAN, writeFails \in BOOLEAN :
       StoreSave(generation, readFails, writeFails)
  \/ \E writeFails \in BOOLEAN : StoreClear(writeFails)
  \/ \E data \in ImportTexts, writeFails \in BOOLEAN : StoreImport(data, writeFails)
  \/ \E readFails \in BOOLEAN : StoreLoad(readFails)
  \/ \E readFails \in BOOLEAN : StoreExport(readFails)

SpecStore == InitStore /\ [][NextStore]_vars

\* SpecStoreAnyKey: the same calls on a key that may hold anything when the
\* page loads: nothing, text that is not JSON, JSON that is not a list, a list
StoredKeys ==
  {Absent, Garbage, JSONstringify(JObject, 0), JSONstringify(JArray(<<OldGeneration>>), 0)}

InitStoreAnyKey ==
  /\ storage \in StoredKeys
  /\ HookMounted
  /\ PageIdle
  /\ StoreIdle
  /\ ClientIdle

SpecStoreAnyKey == InitStoreAnyKey /\ [][NextStore]_vars

\* ------------------------------------------------- API client and proxy
\* VideoGenerationAPI called directly against the proxy.
\* prompts: empty (a missing prompt is falsy in the same test), blank, valid,
\* longer than 1000, blank and longer than 1000, and valid but padded past 1000
RequestPrompts ==
  { [ws |-> 0, core |-> 0], [ws |-> 2, core |-> 0], [ws |-> 1, core |-> 8],
    [ws |-> 0, core |-> 1001], [ws |-> 1001, core |-> 0], [ws |-> 995, core |-> 8] }

RequestConfigs ==
  { [duration |-> 10, aspectRatio |-> "16:9", style |-> "cinematic", quality |-> "standard"],
    [duration |-> 30, aspectRatio |-> "9:16", style |-> "cinematic", quality |-> "high"],
    [duration |-> 7,  aspectRatio |-> "16:9", style |-> "cinematic", quality |-> "standard"],
    [duration |-> 10, aspectRatio |-> "4:3",  style |-> "cinematic", quality |-> "standard"],
    [duration |-> 7,  aspectRatio |-> "4:3",  style |-> "cinematic", quality |-> "high"] }

Requests ==
  { [prompt |-> p, duration |-> c.duration, aspectRatio |-> c.aspectRatio,
     style |-> c.style, quality |-> c.quality] : p \in RequestPrompts, c \in RequestConfigs }

\* what answers GET /generate-video/status: this repository has no such
\* route (404); a server behind another baseUrl may answer the others
StatusAnswers ==
  { [http |-> 404, body |-> FailureResponse(Undefined, Undefined)],
    [http |-> 500, body |-> FailureResponse("Internal server error", "failed")],
    [http |-> 200, body |-> Response(TRUE, "processing", Undefined, Undefined, "task_id", 100)],
    [http |-> 200, body |-> Response(TRUE, "completed", "https://video.mp4", Undefined,
                                     "task_id", 0)] }

\* VideoGenerationAPI.checkStatus: every throw becomes a failure result
VideoGenerationAPI_checkStatus(net, answer) ==
  IF net = "network_error" THEN FailureResponse("Failed to fetch", "failed")
  ELSE IF ~Ok(answer.http) THEN FailureResponse(HttpErrorMessage(answer.http), "failed")
  ELSE IF net = "bad_body" THEN FailureResponse("Unexpected token", "failed")
  ELSE answer.body

\* the request did not reach a server
NoAnswer == [http |-> 0, calledProvider |-> FALSE, body |-> FailureResponse(Undefined, Undefined)]

ClientSubmit(request, net, prov) ==
  /\ lastCall' = [kind |-> "submit", request |-> request, net |-> net, prov |-> prov,
                  answer |-> IF net = "network_error" THEN NoAnswer ELSE POST(request, prov),
                  result |-> VideoGenerationAPI_generateVideo(request, net, prov)]
  /\ UNCHANGED <<hookVars, storage, pageVars, storeVars>>

ClientCheckStatus(net, answer) ==
  /\ lastCall' = [kind |-> "status", net |-> net, answer |-> answer,
                  result |-> VideoGenerationAPI_checkStatus(net, answer)]
  /\ UNCHANGED <<hookVars, storage, pageVars, storeVars>>

InitClient ==
  /\ storage = Absent
  /\ HookMounted
  /\ PageIdle
  /\ StoreIdle
  /\ ClientIdle

NextClient ==
  \/ \E request \in Requests, net \in NetOutcomes, prov \in ProviderOutcomes :
       ClientSubmit(request, net, prov)
  \/ \E net \in NetOutcomes, answer \in StatusAnswers : ClientCheckStatus(net, answer)

SpecClient == InitClient /\ [][NextClient]_vars

\* =================================================================== claims
NoDuplicateIds(list) ==
  \A i, j \in DOMAIN list : list[i].id = list[j].id => i = j

CountId(list, id) == Cardinality({i \in DOMAIN list : list[i].id = id})

PendingIds == {call.gen.id : call \in pending}

InvalidPrompt(prompt) == prompt.core = 0 \/ PromptLength(prompt) > MaxPromptLength

\* C1: a submit response that arrives for a generation that cancelGeneration
\* already moved out of the active set is a no-op: the active set, the
\* in-memory history and the persisted list stay as they were, so the only
\* record of the generation stays the failed 'Cancelled by user' one.
C1_LateResponseIsNoOp ==
  [][\A call \in pending :
       (call \notin pending' /\ call.gen.id \notin Ids(activeGenerations))
       => /\ activeGenerations' = activeGenerations
          /\ generationHistory' = generationHistory
          /\ PersistedList(storage') = PersistedList(storage)]_vars

\* C2: no two records of the history, in memory or persisted, share an
\* identifier, and no identifier is both active and in the history.
C2_IdentifiersUnique ==
  /\ NoDuplicateIds(generationHistory)
  /\ NoDuplicateIds(PersistedList(storage))
  /\ Ids(activeGenerations) \cap Ids(generationHistory) = {}

ExactlyOneOutcome(r) ==
  \/ r.status = "completed" /\ r.videoUrl # Undefined /\ r.error = Undefined
  \/ r.status = "failed" /\ r.error # Undefined /\ r.videoUrl = Undefined

\* C3: every step that moves a generation to a terminal state (it leaves the
\* active set, or the history grows) puts exactly one new record at the head
\* of the in-memory history; the record has videoUrl and no error when it is
\* completed, error and no videoUrl when it is failed, and its identifier is
\* no longer in the active set.
C3_TerminalRecord ==
  [][(Ids(activeGenerations) \ Ids(activeGenerations') # {}
      \/ Len(generationHistory') > Len(generationHistory))
     => /\ generationHistory' = <<Head(generationHistory')>> \o generationHistory
        /\ Ids(activeGenerations) \ Ids(activeGenerations') \subseteq {Head(generationHistory').id}
        /\ Head(generationHistory').id \notin Ids(activeGenerations')
        /\ ExactlyOneOutcome(Head(generationHistory'))]_vars

\* C3 witness: a cancelled generation and one completed by the simulated
\* timer are both in the history and nothing is active.
C3_Witness ==
  /\ activeGenerations = <<>>
  /\ \E i, j \in DOMAIN generationHistory :
       /\ generationHistory[i].error = "Cancelled by user"
       /\ generationHistory[j].videoUrl = PlaceholderVideoUrl

\* C4: a generateVideo call with a valid request appends exactly one
\* generation to the active set, with status processing, progress 0 and an
\* identifier that is in neither the active set nor the history (in memory
\* or persisted) before the call; the generations already active are kept
\* as they are.
C4_StartAddsOneFresh ==
  [][\A call \in pending' \ pending :
       validateVideoRequest([prompt |-> call.prompt,
                             duration |-> call.gen.config.duration,
                             aspectRatio |-> call.gen.config.aspectRatio]) = Undefined
       => /\ Len(activeGenerations') = Len(activeGenerations) + 1
          /\ SubSeq(activeGenerations', 1, Len(activeGenerations)) = activeGenerations
          /\ activeGenerations'[Len(activeGenerations')].status = "processing"
          /\ activeGenerations'[Len(activeGenerations')].progress = 0
          /\ activeGenerations'[Len(activeGenerations')].id = call.gen.id
          /\ call.gen.id \notin Ids(activeGenerations) \cup Ids(generationHistory)
                                  \cup Ids(PersistedList(storage))]_vars

\* C4 witness: a second valid generation was started next to one whose
\* progress the ticker had already advanced.
C4_Witness ==
  /\ Len(activeGenerations) = 2
  /\ activeGenerations[1].progress > 0
  /\ activeGenerations[2].progress = 0
  /\ activeGenerations[2].prompt.core = 8
  /\ activeGenerations[2].config.duration = 10
  /\ Cardinality(pending) = 2

\* C5: the progress of a generation never decreases while it stays in the
\* active set, and every completed record has progress 100.
C5_ProgressMonotone ==
  [][/\ \A id \in Ids(activeGenerations) \cap Ids(activeGenerations') :
          Find(activeGenerations', id).progress >= Find(activeGenerations, id).progress
     /\ \A i \in DOMAIN generationHistory' :
          generationHistory'[i].status = "completed"
          => generationHistory'[i].progress = CompletedProgress]_vars

\* C6: generateVideo with a prompt that is blank after trimming or longer
\* than 1000 characters sends no request and leaves the active set and the
\* history unchanged.
C6_InvalidPromptRejected ==
  [][\A prompt \in Prompts, config \in Configs :
       (GenerateVideo(prompt, config) /\ InvalidPrompt(prompt))
       => /\ pending' = pending
          /\ activeGenerations' = activeGenerations
          /\ generationHistory' = generationHistory]_vars

\* C7: cancelGeneration(id) on an active generation puts one failed record
\* with error 'Cancelled by user' for id at the head of the history, the only
\* record for id, and removes id from the active set; on an id that is not
\* active it changes neither the active set, nor the history, nor the
\* persisted list.
C7_Cancel ==
  [][\A id \in CancelIds :
       CancelGeneration(id, FALSE, FALSE)
       => IF id \in Ids(activeGenerations)
          THEN /\ generationHistory' = <<Head(generationHistory')>> \o generationHistory
               /\ Head(generationHistory').id = id
               /\ Head(generationHistory').status = "failed"
               /\ Head(generationHistory').error = "Cancelled by user"
               /\ CountId(generationHistory', id) = 1
               /\ id \notin Ids(activeGenerations')
          ELSE UNCHANGED <<activeGenerations, generationHistory, storage>>]_vars

\* C7 witness: a cancelled generation is in the history, first, and no
\* longer active, while its submit call is still awaiting the response.
C7_Witness ==
  /\ generationHistory # <<>>
  /\ Head(generationHistory).error = "Cancelled by user"
  /\ Head(generationHistory).id \notin Ids(activeGenerations)
  /\ Head(generationHistory).id \in PendingIds

\* C8: when the simulated-completion timer of a generation fires after the
\* generation left the active set, the active set, the in-memory history and
\* the persisted list are unchanged.
C8_LateTimerIsNoOp ==
  [][\A id \in timers :
       (id \notin timers' /\ id \notin Ids(activeGenerations))
       => UNCHANGED <<activeGenerations, generationHistory, storage>>]_vars

\* C8 witness: a generation was cancelled after the provider answered
\* 'processing' (its record carries the task identifier) and its timer has
\* fired since.
C8_Witness ==
  \E i \in DOMAIN generationHistory :
    /\ generationHistory[i].error = "Cancelled by user"
    /\ generationHistory[i].taskId # Undefined
    /\ generationHistory[i].id \notin timers
    /\ CountId(generationHistory, generationHistory[i].id) = 1

\* C9: in the page-level flow, when the simulated-completion timer of a
\* generation fires after the generation was cancelled from the queue (it
\* is no longer in the page's active list), the page's history is unchanged.
C9_PageLateTimerIsNoOp ==
  [][\A call \in pageTimers :
       (call \notin pageTimers' /\ call.gen.id \notin Ids(pageActiveGenerations))
       => pageGenerationHistory' = pageGenerationHistory]_vars

\* C10: the persisted history list never holds more than 50 entries,
\* whatever sequence of save, clear, import, load and export ran since the
\* key was absent.
C10_PersistedAtMostFifty ==
  Len(PersistedList(storage)) <= HistoryKeep + 1

\* C11: saveGenerationToHistory(g) on a persisted list L (with a storage that
\* does not throw) stores g followed by the first 49 entries of L in their
\* order: g is first, the length is min(|L| + 1, 50), and every later entry
\* is the entry of L one place before it, so a full list loses its last one.
C11_SavePrependsAndTruncates ==
  [][\A generation \in StoreGenerations :
       (StoreSave(generation, FALSE, FALSE) /\ IsArray(getGenerationHistory(storage, FALSE)))
       => LET L == PersistedList(storage)
              new == PersistedList(storage')
          IN /\ Len(new) = Min(Len(L) + 1, 50)
             /\ new[1] = generation
             /\ \A i \in 2 .. Len(new) : new[i] = L[i - 1]]_vars

\* a save onto an imported list of 50 happened: the new record leads 49 old
\* ones and the oldest (id -50) is gone
C11_Witness ==
  LET new == PersistedList(storage)
  IN /\ Len(new) = 50
     /\ new[1] \in StoreGenerations
     /\ new[50].id = 0 - 49

InHistoryAs(id, P(_)) ==
  \E i \in DOMAIN generationHistory :
    generationHistory[i].id = id /\ P(generationHistory[i])

IsTerminal(r) == r.status \in {"completed", "failed"}

IsCompletedWithUrl(r) == r.status = "completed" /\ Truthy(r.videoUrl)

IsCancelled(r) == r.status = "failed" /\ r.error = "Cancelled by user"

CompletedOrCancelled(r) == IsCompletedWithUrl(r) \/ IsCancelled(r)

\* C13: when every submit settles and every timer fires, each generation in
\* the active set eventually is out of it and in the history with a terminal
\* status; and one whose submit was answered 'processing' (its timer is set)
\* eventually is in the history as completed with a non-empty videoUrl,
\* unless it was cancelled.
C13_EventuallyTerminal ==
  /\ \A id \in 1 .. MaxGenerations :
       (id \in Ids(activeGenerations))
         ~> (id \notin Ids(activeGenerations) /\ InHistoryAs(id, IsTerminal))
  /\ \A id \in 1 .. MaxGenerations :
       (id \in Ids(activeGenerations) /\ id \in timers)
         ~> InHistoryAs(id, CompletedOrCancelled)

\* a generation answered 'processing' was completed by its timer
C13_Witness ==
  /\ activeGenerations = <<>>
  /\ pending = {}
  /\ timers = {}
  /\ \E i \in DOMAIN generationHistory :
       /\ generationHistory[i].videoUrl = PlaceholderVideoUrl
       /\ generationHistory[i].taskId # Undefined

\* a result of the API client that is neither 'completed with a video URL'
\* nor 'processing'
IsFailureOutcome(response) ==
  /\ ~(response.success /\ response.status = "completed" /\ Truthy(response.videoUrl))
  /\ ~(response.success /\ response.status = "processing")

\* C14: generateVideo always resolves, and for every result of the submit
\* that is a failure result or a success without a usable outcome it resolves
\* to false, the generation is out of the active set, and the head of the
\* history is its record with status failed and a non-empty error: the
\* result's error, or 'Generation failed' when it has none.
C14_FailureResolvesFalse ==
  [][\A call \in pending, net \in NetOutcomes, prov \in ProviderOutcomes :
       SubmitResponse(call, net, prov, FALSE, FALSE)
       => LET response == VideoGenerationAPI_generateVideo(
                            SubmitRequest(call.prompt, call.gen.config), net, prov)
          IN /\ lastResult' \in {"true", "false"}
             /\ IsFailureOutcome(response)
                => /\ lastResult' = "false"
                   /\ call.gen.id \notin Ids(activeGenerations')
                   /\ Len(generationHistory') = Len(generationHistory) + 1
                   /\ generationHistory'[1].id = call.gen.id
                   /\ generationHistory'[1].status = "failed"
                   /\ generationHistory'[1].error \notin {"", Undefined}
                   /\ generationHistory'[1].error =
                        IF response.error \in {"", Undefined} THEN "Generation failed"
                        ELSE response.error]_vars

\* a submit answered 'completed' without a video URL ended as failed with
\* the default message
C14_Witness ==
  /\ lastResult = "false"
  /\ generationHistory # <<>>
  /\ generationHistory[1].status = "failed"
  /\ generationHistory[1].error = "Generation failed"
  /\ generationHistory[1].id \notin Ids(activeGenerations)

IsFailureResult(r) ==
  r.success = FALSE /\ r.status = "failed" /\ r.error \notin {"", Undefined}

\* C15: VideoGenerationAPI.generateVideo and checkStatus always return a
\* result, and when the transport threw, the HTTP status was not 2xx or the
\* body did not parse, the result has success = false, status 'failed' and a
\* non-empty error.
C15_ClientNeverThrows ==
  lastCall.kind # "none"
  => ((lastCall.net # "ok" \/ ~Ok(lastCall.answer.http))
      => IsFailureResult(lastCall.result))

\* the proxy answered 400 and the client turned it into a failure result
C15_Witness ==
  /\ lastCall.kind = "submit"
  /\ lastCall.net = "ok"
  /\ lastCall.answer.http = 400
  /\ lastCall.result.error = "HTTP error! status: 400"

PromptMissing(request) == request.prompt.core = 0

PromptTooLong(request) == request.prompt.ws + request.prompt.core > 1000

BadDuration(request) == request.duration \notin {5, 10, 15, 30}

BadAspectRatio(request) == request.aspectRatio \notin {"16:9", "9:16", "1:1"}

\* C16: a request that reaches the proxy with a missing or blank prompt, a
\* prompt longer than 1000 characters, a duration outside {5, 10, 15, 30} or
\* an aspect ratio outside {16:9, 9:16, 1:1} is answered with HTTP 400 and
\* success = false without a call to the provider, and the error is the
\* message of the first rule, in that order, that the request violates.
C16_ProxyRejectsInOrder ==
  (lastCall.kind = "submit" /\ lastCall.net # "network_error")
  => LET request == lastCall.request
         answer == lastCall.answer
     IN /\ (PromptMissing(request) \/ PromptTooLong(request)
             \/ BadDuration(request) \/ BadAspectRatio(request))
           => /\ answer.http = 400
              /\ answer.body.success = FALSE
              /\ ~answer.calledProvider
        /\ PromptMissing(request) => answer.body.error = "Prompt is required"
        /\ (~PromptMissing(request) /\ PromptTooLong(request))
           => answer.body.error = "Prompt must be less than 1000 characters"
        /\ (~PromptMissing(request) /\ ~PromptTooLong(request) /\ BadDuration(request))
           => answer.body.error = "Duration must be 5, 10, 15, or 30 seconds"
        /\ (~PromptMissing(request) /\ ~PromptTooLong(request) /\ ~BadDuration(request)
             /\ BadAspectRatio(request))
           => answer.body.error = "Invalid aspect ratio"

\* a request with a prompt that is too long, a bad duration and a bad aspect
\* ratio was rejected for its prompt
C16_Witness ==
  /\ lastCall.kind = "submit"
  /\ lastCall.net = "ok"
  /\ ~PromptMissing(lastCall.request)
  /\ PromptTooLong(lastCall.request)
  /\ BadDuration(lastCall.request)
  /\ BadAspectRatio(lastCall.request)
  /\ lastCall.answer.http = 400
  /\ lastCall.answer.body.error = "Prompt must be less than 1000 characters"

IsCompletedResult(r) == r.success /\ r.status = "completed" /\ Truthy(r.videoUrl)

IsProcessingResult(r) ==
  r.success /\ r.status = "processing" /\ r.estimatedTime > 0 /\ r.taskId # Undefined

IsErrorResult(r) == ~r.success /\ Truthy(r.error)

\* C17: every result of a submit through the proxy and the API client is
\* success with status 'completed' and a non-empty video URL, or success
\* with status 'processing', an estimated time and a task identifier, or
\* success = false with an error message.
C17_ThreeShapes ==
  lastCall.kind = "submit"
  => \/ IsCompletedResult(lastCall.result)
     \/ IsProcessingResult(lastCall.result)
     \/ IsErrorResult(lastCall.result)

\* C18: retryGeneration(g) adds to the active set one new generation with
\* g's prompt and g's config under an identifier other than g.id, and leaves
\* the history, with g's record in it, and the persisted list as they were.
C18_RetryStartsAnew ==
  [][\A i \in DOMAIN generationHistory :
       RetryGeneration(generationHistory[i])
       => LET g == generationHistory[i]
              new == activeGenerations'[Len(activeGenerations')]
          IN /\ Len(activeGenerations') = Len(activeGenerations) + 1
             /\ new.prompt = g.prompt
             /\ new.config = g.config
             /\ new.id # g.id
             /\ new.id \notin Ids(activeGenerations) \cup Ids(generationHistory)
             /\ new.status = "processing"
             /\ generationHistory' = generationHistory
             /\ storage' = storage]_vars

\* a retry of a history record is awaiting its response: the call carries
\* the record's already trimmed prompt
C18_Witness ==
  \E call \in pending :
    /\ call.prompt.ws = 0
    /\ \E i \in DOMAIN generationHistory :
         /\ generationHistory[i].prompt = call.gen.prompt
         /\ generationHistory[i].config = call.gen.config
         /\ generationHistory[i].id # call.gen.id

HoldsList(text) == text.kind = "json" /\ text.value.type = "array"

\* C19: getGenerationHistory() always returns a list: the persisted list
\* when the key holds one and can be read, the empty list when the key is
\* absent, unreadable, not valid JSON, or valid JSON that is not a list.
C19_LoadReturnsList ==
  [][\A readFails \in BOOLEAN :
       StoreLoad(readFails)
       => /\ loaded'.type = "array"
          /\ loaded' = IF HoldsList(storage) /\ ~readFails THEN storage.value
                       ELSE JArray(<<>>)]_vars

\* C20: importGenerationHistory(text) returns false and leaves the key as it
\* was whenever text is not valid JSON or parses to a value that is not a
\* list; it returns true only for a text that parses to a list, and then the
\* key holds that text; a list is refused only when the storage throws.
C20_ImportOnlyLists ==
  [][\A data \in ImportTexts, writeFails \in BOOLEAN :
       StoreImport(data, writeFails)
       => /\ ~HoldsList(data) => (imported' = FALSE /\ storage' = storage)
          /\ imported' = TRUE => (HoldsList(data) /\ storage' = data)
          /\ (HoldsList(data) /\ ~writeFails) => imported' = TRUE
          /\ imported' = FALSE => storage' = storage]_vars

\* the first store call imported a list of 49 records, which the key now holds
C20_Witness ==
  /\ imported = TRUE
  /\ storeOps = 1
  /\ HoldsList(storage)
  /\ storage.indent = 2
  /\ Len(storage.value.items) = 49

\* a History Store call during which getItem or setItem / removeItem throws
StoreCallWithFailure ==
  \/ \E generation \in StoreGenerations, readFails \in BOOLEAN, writeFails \in BOOLEAN :
       (readFails \/ writeFails) /\ StoreSave(generation, readFails, writeFails)
  \/ StoreClear(TRUE)
  \/ \E data \in ImportTexts : StoreImport(data, TRUE)
  \/ StoreLoad(TRUE)
  \/ StoreExport(TRUE)

\* C21: a History Store operation (save, load, clear, export, import) during
\* which the storage read or write fails returns normally and leaves the
\* persisted key as it was.
C21_FailureIsNoOp ==
  [][StoreCallWithFailure => storage' = storage]_vars

\* old is still there, unchanged and in order, under at most one new head
KeptUnderNewHead(old, new) ==
  \/ new = old
  \/ Len(new) = Len(old) + 1 /\ SubSeq(new, 2, Len(new)) = old

\* the same, except that a list of 50 loses its last entry to the new head
KeptUpToEviction(old, new) ==
  \/ new = old
  \/ /\ Len(new) = (IF Len(old) >= 50 THEN 50 ELSE Len(old) + 1)
     /\ SubSeq(new, 2, Len(new)) = SubSeq(old, 1, Len(new) - 1)

C23_PageTerminalEntersHistory ==
  [][\A id \in Ids(pageActiveGenerations) \ Ids(pageActiveGenerations') :
       /\ Len(pageGenerationHistory') = Len(pageGenerationHistory) + 1
       /\ pageGenerationHistory'[1].id = id]_vars

\* C24: in every reachable state of the hook, every member of the active
\* set has status processing and progress between 0 and 90 inclusive, and
\* (the store being empty at mount) every member of the history has status
\* completed or failed.
C24_ActiveAndHistoryShapes ==
  /\ \A i \in DOMAIN activeGenerations :
       /\ activeGenerations[i].status = "processing"
       /\ activeGenerations[i].progress \in 0 .. ProgressCap
  /\ \A i \in DOMAIN generationHistory :
       generationHistory[i].status \in {"completed", "failed"}

\* a tick has brought one generation onto the cap while another, started
\* since, is active too, and the history holds a terminal record
C24_Witness ==
  /\ ticks = 1
  /\ \E i \in DOMAIN activeGenerations : activeGenerations[i].progress = ProgressCap
  /\ generationHistory # <<>>

\* C25: a firing of the progress interval changes nothing but the progress
\* field of the active generations that are processing below 90; each of
\* those gets a progress strictly greater than before and at most 90, every
\* other one keeps its progress, and the members of the active set, the
\* history and the store are as before.
C25_TickOnlyAdvancesProgress ==
  [][ticks' # ticks
       => /\ Len(activeGenerations') = Len(activeGenerations)
          /\ \A i \in DOMAIN activeGenerations :
               LET old == activeGenerations[i]
                   new == activeGenerations'[i]
               IN /\ [new EXCEPT !.progress = old.progress] = old
                  /\ IF old.status = "processing" /\ old.progress < ProgressCap
                     THEN old.progress < new.progress /\ new.progress <= ProgressCap
                     ELSE new.progress = old.progress
          /\ generationHistory' = generationHistory
          /\ storage' = storage]_vars

\* after one firing: a first generation on the cap, a second one advanced
\* from 0 by the increment
C25_Witness ==
  /\ ticks = 1
  /\ Len(activeGenerations) = 2
  /\ activeGenerations[1].progress = ProgressCap
  /\ activeGenerations[2].progress \in 1 .. 10

\* C26: in every reachable state getActiveCount() is the number of members
\* of the active set, getCompletedCount() and getFailedCount() are the
\* numbers of history records with status completed and failed, and the two
\* add up to the length of the in-memory history.
HistoryPositionsWith(status) ==
  {i \in DOMAIN generationHistory : generationHistory[i].status = status}

C26_DerivedCounts ==
  /\ getActiveCount = Cardinality(Ids(activeGenerations))
  /\ getCompletedCount = Cardinality(HistoryPositionsWith("completed"))
  /\ getFailedCount = Cardinality(HistoryPositionsWith("failed"))
  /\ getCompletedCount + getFailedCount = Len(generationHistory)

\* C27: in GenerationQueue the progress displayed for a processing
\* generation never decreases from one state to the next while the
\* generation stays in the queue, whatever happens to the parent's active
\* list in between.
C27_QueueProgressMonotone ==
  [][\A id \in Ids(localGenerations) \cap Ids(localGenerations') :
       Find(localGenerations, id).status = "processing"
       => Find(localGenerations', id).progress >= Find(localGenerations, id).progress]_vars

\* C28: from a mounted hook whose history was loaded from the store, after
\* any sequence of generateVideo, cancelGeneration, retryGeneration, timer
\* firings and clearHistory, the in-memory history is the persisted list,
\* record for record, and so never holds more than 50 entries.
C28_MemoryIsPersistedList ==
  /\ generationHistory = PersistedList(storage)
  /\ Len(generationHistory) <= HistoryKeep + 1

\* C29: in the page-level flow, with every fetch settling and every timeout
\* firing, each generation announced through onNewGeneration (it is in the
\* page's active list) is eventually reported through onGenerationComplete
\* or onGenerationError (it has left the page's active list), whatever the
\* proxy answered.
C29_PageGenerationIsReported ==
  \A id \in 1 .. MaxGenerations :
    (id \in Ids(pageActiveGenerations)) ~> (id \notin Ids(pageActiveGenerations))

\* C30: the hook's isGenerating flag is true in exactly the states where at
\* least one generateVideo call is still awaiting its submit response, also
\* when two or more calls overlap.
C30_IsGeneratingIffPending == isGenerating <=> pending # {}

====
